---- MODULE Spec2Model ----
(***************************************************************************)
(* The view layer of the blog application (blogicum/blog/views.py and      *)
(* blogicum/blog/forms.py) as a state machine.  The state is the database  *)
(* (users, posts, comments), the clock, the moment frozen in               *)
(* IndexListView.today when the module is imported, and the response to    *)
(* the request handled last.  Every view is one action: it handles one     *)
(* HTTP request from start to end.                                         *)
(*                                                                         *)
(* Of the PostForm fields, text, pub_date and category are kept; title,    *)
(* location and image are further payload no view looks at.                *)
(***************************************************************************)
EXTENDS Integers, Sequences, FiniteSets, TLC

VARIABLES
    now,        \* the clock, timezone.now()
    today,      \* IndexListView.today, evaluated once at import
    tie,        \* how the database orders rows of equal pub_date (1: by pk, 2: by pk reversed)
    users,      \* User table: pk -> record
    posts,      \* Post table: pk -> record, live rows only
    postSeq,    \* last pk handed out for a Post
    comments,   \* Comment table: pk -> record, live rows only
    commentSeq, \* last pk handed out for a Comment
    resp        \* the request handled last and its response

vars == <<now, today, tie, users, posts, postSeq, comments, commentSeq, resp>>

(***************************************************************************)
(* Bounds and fixed data                                                   *)
(***************************************************************************)
POSTS_PER_PAGE == 10

MaxPosts == 1
MaxComments == 1
MaxVisPosts == 2
MaxTime == 1
MaxListPosts == 21
MaxListComments == 3

Anonymous == 0
UserIds == {1, 2}
Requesters == UserIds \cup {Anonymous}

Slugs == {"travel", "drafts"}
UrlSlugs == Slugs \cup {"nowhere"}
\* Category table: slug -> is_published.  No view writes it.
Category == [s \in Slugs |-> s = "travel"]

Texts == {"a", "b"}
Methods == {"GET", "POST"}
Names == {"alice", "bob", "carol"}
Strs == {"", "x"}
NoCount == 0 - 1

InitUsers ==
    (1 :> [username |-> "alice", first_name |-> "", last_name |-> "", email |-> ""])
    @@ (2 :> [username |-> "bob", first_name |-> "", last_name |-> "", email |-> ""])

(***************************************************************************)
(* Requests and responses                                                  *)
(***************************************************************************)
Url(name, pk, username) == [name |-> name, pk |-> pk, username |-> username]
NoUrl == Url("", 0, "")
LoginUrl == Url("login", 0, "")
NoData == [valid |-> FALSE]

\* data is the form data of a POST that reaches the form; NoData otherwise
Req(view, method, user, pk, slug, page) ==
    [view |-> view, method |-> method, user |-> user, pk |-> pk, slug |-> slug,
     page |-> page, data |-> NoData, status |-> 0, loc |-> NoUrl, items |-> <<>>]

Reply(req, status, loc, items) ==
    [req EXCEPT !.status = status, !.loc = loc, !.items = items]

Bound(req, data) == [req EXCEPT !.data = data]

NoResp == Req("none", "GET", Anonymous, 0, "", 0)

is_authenticated(u) == u # Anonymous

Restrict(f, S) == [x \in S |-> f[x]]
Min(a, b) == IF a <= b THEN a ELSE b

(***************************************************************************)
(* Querysets                                                               *)
(***************************************************************************)
\* Row i comes before row j under order_by('-pub_date'); rows of equal
\* pub_date come in the order the database gives them.
Before(i, j) ==
    \/ posts[i].pub_date > posts[j].pub_date
    \/ /\ posts[i].pub_date = posts[j].pub_date
       /\ IF tie = 1 THEN i <= j ELSE i >= j

RECURSIVE OrderByPubDateDesc(_)
OrderByPubDateDesc(S) ==
    IF S = {} THEN <<>>
    ELSE LET first == CHOOSE i \in S : \A j \in S : Before(i, j)
         IN  <<first>> \o OrderByPubDateDesc(S \ {first})

CommentCount(p) == Cardinality({c \in DOMAIN comments : comments[c].post = p})

\* .annotate(comment_count=Count('comments'))
Annotate(q) == [i \in 1..Len(q) |-> [pk |-> q[i], comment_count |-> CommentCount(q[i])]]
\* rows without the annotation
Plain(q) == [i \in 1..Len(q) |-> [pk |-> q[i], comment_count |-> NoCount]]

IndexFilterNoCategory ==
    {p \in DOMAIN posts : /\ posts[p].pub_date <= today
                          /\ posts[p].is_published}

\* IndexListView.queryset: the filter, with today as frozen at import
IndexFilter ==
    {p \in DOMAIN posts : /\ posts[p].pub_date <= today
                          /\ posts[p].is_published
                          /\ Category[posts[p].category]}

IndexQueryset == Annotate(OrderByPubDateDesc(IndexFilter))

CategoryFilter(slug) ==
    {p \in DOMAIN posts : /\ posts[p].category = slug
                          /\ posts[p].is_published
                          /\ posts[p].pub_date <= now}

CategoryQueryset(slug) == Plain(OrderByPubDateDesc(CategoryFilter(slug)))

ProfileFilter(uid) == {p \in DOMAIN posts : posts[p].author = uid}

ProfileQueryset(uid) == Annotate(OrderByPubDateDesc(ProfileFilter(uid)))

(***************************************************************************)
(* Paginator(object_list, POSTS_PER_PAGE)                                  *)
(***************************************************************************)
NumPages(q) ==
    IF Len(q) = 0 THEN 1 ELSE (Len(q) + POSTS_PER_PAGE - 1) \div POSTS_PER_PAGE

ValidPage(q, n) == n >= 1 /\ n <= NumPages(q)

PageOfInclusiveTop(q, n) ==
    SubSeq(q, (n - 1) * POSTS_PER_PAGE + 1, Min(n * POSTS_PER_PAGE + 1, Len(q)))

\* Paginator.page: object_list[bottom:top]
PageOf(q, n) ==
    SubSeq(q, (n - 1) * POSTS_PER_PAGE + 1, Min(n * POSTS_PER_PAGE, Len(q)))

\* Paginator.get_page: a number out of range gives the last page
GetPage(q, n) == IF ValidPage(q, n) THEN n ELSE NumPages(q)

(***************************************************************************)
(* Forms (forms.py): a ModelForm writes its Meta.fields onto the instance  *)
(* and nothing else, whatever else the client submits.                     *)
(***************************************************************************)
PostFormWithAuthor(instance, data) ==
    [instance EXCEPT !.text = data.text, !.pub_date = data.pub_date,
                     !.category = data.category,
                     !.author = IF data.author = Anonymous THEN @ ELSE data.author]

PostFormInstance(instance, data) ==
    [instance EXCEPT !.text = data.text, !.pub_date = data.pub_date,
                     !.category = data.category]

CommentFormInstance(instance, data) == [instance EXCEPT !.text = data.text]

\* A field of the user form is valid when the submitted username is not
\* the username of another row (User.username is unique).
UserFormValid(target, data) ==
    /\ data.valid
    /\ \A o \in DOMAIN users : o # target => users[o].username # data.username

UserFormInstance(instance, data) ==
    [instance EXCEPT !.username = data.username, !.first_name = data.first_name,
                     !.last_name = data.last_name, !.email = data.email]

(***************************************************************************)
(* Mixins                                                                  *)
(***************************************************************************)
PostDispatchMixinNoCheck(u, id) ==
    IF id \notin DOMAIN posts THEN "not_found" ELSE "pass"

\* PostDispatchMixin.dispatch
PostDispatchMixinDispatch(u, id) ==
    IF id \notin DOMAIN posts THEN "not_found"
    ELSE IF posts[id].author # u THEN "redirect"
    ELSE "pass"

\* CommentMixin.dispatch
CommentMixinDispatch(u, id) ==
    IF id \notin DOMAIN comments THEN "not_found"
    ELSE IF comments[id].author # u THEN "redirect"
    ELSE "pass"

PostDetailDispatchNoAuthor(u, id) ==
    LET post == posts[id]
    IN  IF \/ ~post.is_published
           \/ ~Category[post.category]
           \/ ~(post.pub_date <= now)
        THEN 404
        ELSE 200

\* PostDetailView.dispatch, for a post that exists
PostDetailDispatch(u, id) ==
    LET post == posts[id]
    IN  IF \/ ~post.is_published
           \/ ~Category[post.category]
           \/ ~(post.pub_date <= now)
        THEN IF u = post.author THEN 200 ELSE 404
        ELSE 200

CommentCreateFormValidNoPost(instance, u, post) ==
    [instance EXCEPT !.author = u]

\* CommentCreateView.form_valid
CommentCreateFormValid(instance, u, post) ==
    [instance EXCEPT !.author = u, !.post = post]

\* PostCreateView.form_valid
PostCreateFormValid(instance, u) == [instance EXCEPT !.author = u]

(***************************************************************************)
(* Views.  DB and Clock are what a request that only reads leaves alone.   *)
(***************************************************************************)
DB == <<users, posts, postSeq, comments, commentSeq>>
Clock == <<now, today, tie>>

ReadOnly(r) == resp' = r /\ UNCHANGED DB /\ UNCHANGED Clock

\* PostCreateView
PostCreate(u, method, data, flag) ==
    LET req == Req("post_create", method, u, 0, "", 0)
        blank == [author |-> Anonymous, text |-> "", pub_date |-> 0,
                  category |-> "", is_published |-> flag]
        object == PostCreateFormValid(PostFormInstance(blank, data), u)
    IN  IF ~is_authenticated(u) THEN ReadOnly(Reply(req, 302, LoginUrl, <<>>))
        ELSE IF method = "GET" THEN ReadOnly(Reply(req, 200, NoUrl, <<>>))
        ELSE IF ~data.valid THEN ReadOnly(Reply(Bound(req, data), 200, NoUrl, <<>>))
        ELSE /\ posts' = posts @@ ((postSeq + 1) :> object)
             /\ postSeq' = postSeq + 1
             /\ resp' = Reply(Bound(req, data), 302, Url("blog:profile", 0, users[u].username), <<>>)
             /\ UNCHANGED <<users, comments, commentSeq>>
             /\ UNCHANGED Clock

\* PostUpdateView: PostDispatchMixin, then LoginRequiredMixin, then UpdateView.
\* The view names no success URL: the redirect goes to the saved post's
\* get_absolute_url().
PostUpdate(u, id, method, data) ==
    LET req == Req("post_edit", method, u, id, "", 0)
        gate == PostDispatchMixinDispatch(u, id)
    IN  IF gate = "not_found" THEN ReadOnly(Reply(req, 404, NoUrl, <<>>))
        ELSE IF gate = "redirect"
        THEN ReadOnly(Reply(req, 302, Url("blog:post_detail", id, ""), <<>>))
        ELSE IF ~is_authenticated(u) THEN ReadOnly(Reply(req, 302, LoginUrl, <<>>))
        ELSE IF method = "GET" THEN ReadOnly(Reply(req, 200, NoUrl, <<>>))
        ELSE IF ~data.valid THEN ReadOnly(Reply(Bound(req, data), 200, NoUrl, <<>>))
        ELSE /\ posts' = [posts EXCEPT ![id] = PostFormInstance(@, data)]
             /\ resp' = Reply(Bound(req, data), 302, Url("get_absolute_url", id, ""), <<>>)
             /\ UNCHANGED <<users, postSeq, comments, commentSeq>>
             /\ UNCHANGED Clock

\* Deleting a Post row.  What becomes of the comments that point at it is
\* set by Comment.post in the models module; the ORM removes them with the
\* post.
DeletePost(id) ==
    /\ posts' = Restrict(posts, DOMAIN posts \ {id})
    /\ comments' = Restrict(comments, {c \in DOMAIN comments : comments[c].post # id})

\* PostDeleteView: PostDispatchMixin, then LoginRequiredMixin, then DeleteView,
\* whose POST deletes the object (DeletionMixin.delete)
PostDelete(u, id, method) ==
    LET req == Req("post_delete", method, u, id, "", 0)
        gate == PostDispatchMixinDispatch(u, id)
    IN  IF gate = "not_found" THEN ReadOnly(Reply(req, 404, NoUrl, <<>>))
        ELSE IF gate = "redirect"
        THEN ReadOnly(Reply(req, 302, Url("blog:post_detail", id, ""), <<>>))
        ELSE IF ~is_authenticated(u) THEN ReadOnly(Reply(req, 302, LoginUrl, <<>>))
        ELSE IF method = "GET" THEN ReadOnly(Reply(req, 200, NoUrl, <<>>))
        ELSE /\ DeletePost(id)
             /\ resp' = Reply(req, 302, Url("blog:index", 0, ""), <<>>)
             /\ UNCHANGED <<users, postSeq, commentSeq>>
             /\ UNCHANGED Clock

\* PostDetailView
PostDetail(u, id) ==
    LET req == Req("post_detail", "GET", u, id, "", 0)
    IN  IF id \notin DOMAIN posts THEN ReadOnly(Reply(req, 404, NoUrl, <<>>))
        ELSE ReadOnly(Reply(req, PostDetailDispatch(u, id), NoUrl, <<>>))

\* CommentCreateView: its own dispatch, then LoginRequiredMixin, then CreateView
CommentCreate(u, id, method, data) ==
    LET req == Req("comment_create", method, u, id, "", 0)
        blank == [author |-> Anonymous, post |-> 0, text |-> ""]
        object == CommentCreateFormValid(CommentFormInstance(blank, data), u, id)
    IN  IF id \notin DOMAIN posts THEN ReadOnly(Reply(req, 404, NoUrl, <<>>))
        ELSE IF ~is_authenticated(u) THEN ReadOnly(Reply(req, 302, LoginUrl, <<>>))
        ELSE IF method = "GET" THEN ReadOnly(Reply(req, 200, NoUrl, <<>>))
        ELSE IF ~data.valid THEN ReadOnly(Reply(Bound(req, data), 200, NoUrl, <<>>))
        ELSE /\ comments' = comments @@ ((commentSeq + 1) :> object)
             /\ commentSeq' = commentSeq + 1
             /\ resp' = Reply(Bound(req, data), 302, Url("blog:post_detail", id, ""), <<>>)
             /\ UNCHANGED <<users, posts, postSeq>>
             /\ UNCHANGED Clock

\* CommentUpdateView: LoginRequiredMixin, then CommentMixin, then UpdateView
CommentUpdate(u, id, method, data) ==
    LET req == Req("comment_edit", method, u, id, "", 0)
        gate == CommentMixinDispatch(u, id)
    IN  IF ~is_authenticated(u) THEN ReadOnly(Reply(req, 302, LoginUrl, <<>>))
        ELSE IF gate = "not_found" THEN ReadOnly(Reply(req, 404, NoUrl, <<>>))
        ELSE IF gate = "redirect"
        THEN ReadOnly(Reply(req, 302, Url("blog:post_detail", comments[id].post, ""), <<>>))
        ELSE IF method = "GET" THEN ReadOnly(Reply(req, 200, NoUrl, <<>>))
        ELSE IF ~data.valid THEN ReadOnly(Reply(Bound(req, data), 200, NoUrl, <<>>))
        ELSE /\ comments' = [comments EXCEPT ![id] = CommentFormInstance(@, data)]
             /\ resp' = Reply(Bound(req, data), 302, Url("blog:post_detail", comments[id].post, ""), <<>>)
             /\ UNCHANGED <<users, posts, postSeq, commentSeq>>
             /\ UNCHANGED Clock

\* CommentDeleteView: LoginRequiredMixin, then CommentMixin, then DeleteView
CommentDelete(u, id, method) ==
    LET req == Req("comment_delete", method, u, id, "", 0)
        gate == CommentMixinDispatch(u, id)
    IN  IF ~is_authenticated(u) THEN ReadOnly(Reply(req, 302, LoginUrl, <<>>))
        ELSE IF gate = "not_found" THEN ReadOnly(Reply(req, 404, NoUrl, <<>>))
        ELSE IF gate = "redirect"
        THEN ReadOnly(Reply(req, 302, Url("blog:post_detail", comments[id].post, ""), <<>>))
        ELSE IF method = "GET" THEN ReadOnly(Reply(req, 200, NoUrl, <<>>))
        ELSE /\ comments' = Restrict(comments, DOMAIN comments \ {id})
             /\ resp' = Reply(req, 302, Url("blog:post_detail", comments[id].post, ""), <<>>)
             /\ UNCHANGED <<users, posts, postSeq, commentSeq>>
             /\ UNCHANGED Clock

\* IndexListView: ListView answers 404 to a page that does not exist
IndexList(u, page) ==
    LET req == Req("index", "GET", u, 0, "", page)
        q == IndexQueryset
    IN  IF ~ValidPage(q, page) THEN ReadOnly(Reply(req, 404, NoUrl, <<>>))
        ELSE ReadOnly(Reply(req, 200, NoUrl, PageOf(q, page)))

\* CategoryPostsListView: the page is cut first, the category looked up after
CategoryPosts(u, slug, page) ==
    LET req == Req("category", "GET", u, 0, slug, page)
        q == CategoryQueryset(slug)
    IN  IF ~ValidPage(q, page) THEN ReadOnly(Reply(req, 404, NoUrl, <<>>))
        ELSE IF ~(slug \in Slugs /\ Category[slug])
        THEN ReadOnly(Reply(req, 404, NoUrl, <<>>))
        ELSE ReadOnly(Reply(req, 200, NoUrl, PageOf(q, page)))

\* UserDetailView
UserDetail(u, username, page) ==
    LET req == Req("profile", "GET", u, 0, username, page)
        found == {id \in DOMAIN users : users[id].username = username}
    IN  IF found = {} THEN ReadOnly(Reply(req, 404, NoUrl, <<>>))
        ELSE LET profile == CHOOSE id \in found : TRUE
                 q == ProfileQueryset(profile)
             IN  ReadOnly(Reply(req, 200, NoUrl, PageOf(q, GetPage(q, page))))

\* UserEditUpdateView: LoginRequiredMixin, then UpdateView on get_object()
UserEdit(u, username, method, data) ==
    LET req == Req("profile_edit", method, u, 0, username, 0)
        found == {id \in DOMAIN users : users[id].username = username}
    IN  IF ~is_authenticated(u) THEN ReadOnly(Reply(req, 302, LoginUrl, <<>>))
        ELSE IF found = {} THEN ReadOnly(Reply(req, 404, NoUrl, <<>>))
        ELSE LET target == CHOOSE id \in found : TRUE
             IN  IF method = "GET" THEN ReadOnly(Reply(req, 200, NoUrl, <<>>))
                 ELSE IF ~UserFormValid(target, data)
                 THEN ReadOnly(Reply(Bound(req, data), 200, NoUrl, <<>>))
                 ELSE /\ users' = [users EXCEPT ![target] = UserFormInstance(@, data)]
                      /\ resp' = Reply(Bound(req, data), 302, Url("blog:profile", 0, users[u].username), <<>>)
                      /\ UNCHANGED <<posts, postSeq, comments, commentSeq>>
                      /\ UNCHANGED Clock

\* Time passes between requests.
Tick ==
    /\ now < MaxTime
    /\ now' = now + 1
    /\ resp' = NoResp
    /\ UNCHANGED <<today, tie>>
    /\ UNCHANGED DB

(***************************************************************************)
(* Inputs                                                                  *)
(***************************************************************************)
PostIds == 1..MaxPosts
CommentIds == 1..MaxComments
VisPostIds == 1..MaxVisPosts
Dates == 0..MaxTime
PageNumbers == 0..2
ListPages == 0..((MaxListPosts \div POSTS_PER_PAGE) + 2)

\* The pk a client puts into fields the forms do not have: none, or 2, which
\* is the pk of a user and may be the pk of a post.
Spoofs == {0, 2}

\* What a client may send to the post form: nothing with a GET; with a
\* POST a form that validates or one that does not.  author is a field the
\* client adds on its own (Anonymous: it adds none).
PostData(method, texts, dates, slugs, authors) ==
    IF method = "GET" THEN {NoData}
    ELSE {[valid |-> TRUE, text |-> t, pub_date |-> dt, category |-> c, author |-> a] :
              t \in texts, dt \in dates, c \in slugs, a \in authors}
         \cup {[valid |-> FALSE, text |-> "", pub_date |-> 0, category |-> "",
                author |-> Anonymous]}

\* What a client may send to the comment form, with author and post added.
CommentData(method) ==
    IF method = "GET" THEN {NoData}
    ELSE {[valid |-> TRUE, text |-> t, author |-> x, post |-> x] :
              t \in Texts, x \in Spoofs}
         \cup {[valid |-> FALSE, text |-> "", author |-> Anonymous, post |-> 0]}

UserData(method) ==
    IF method = "GET" THEN {NoData}
    ELSE {[valid |-> TRUE, username |-> n, first_name |-> f, last_name |-> l,
           email |-> e] : n \in Names, f \in Strs, l \in Strs, e \in Strs}
         \cup {[valid |-> FALSE, username |-> "", first_name |-> "",
                last_name |-> "", email |-> ""]}

Fresh ==
    /\ users = InitUsers
    /\ posts = <<>>
    /\ postSeq = 0
    /\ comments = <<>>
    /\ commentSeq = 0
    /\ resp = NoResp

(***************************************************************************)
(* Spec: posts and comments are created, edited and deleted by two users   *)
(* and by anonymous clients.                                               *)
(***************************************************************************)
\* The server starts at time 0 on an empty database with two users.
Init ==
    /\ now = 0
    /\ today = 0
    /\ tie = 1
    /\ Fresh

\* A request may insert a row only while the table is below its bound.
MayCreate(seq, max, u, method, data) ==
    seq < max \/ ~is_authenticated(u) \/ method = "GET" \/ ~data.valid

DoPostCreate ==
    \E u \in Requesters, m \in Methods :
      \E d \in PostData(m, Texts, {0}, {"travel"}, Spoofs) :
        /\ MayCreate(postSeq, MaxPosts, u, m, d)
        /\ PostCreate(u, m, d, TRUE)

DoPostUpdate ==
    \E u \in Requesters, id \in PostIds, m \in Methods :
      \E d \in PostData(m, Texts, {0}, {"travel"}, Spoofs) :
        PostUpdate(u, id, m, d)

DoPostDelete == \E u \in Requesters, id \in PostIds, m \in Methods : PostDelete(u, id, m)

DoCommentCreate ==
    \E u \in Requesters, id \in PostIds, m \in Methods :
      \E d \in CommentData(m) :
        /\ MayCreate(commentSeq, MaxComments, u, m, d) \/ id \notin DOMAIN posts
        /\ CommentCreate(u, id, m, d)

DoCommentUpdate ==
    \E u \in Requesters, id \in CommentIds, m \in Methods :
      \E d \in CommentData(m) :
        CommentUpdate(u, id, m, d)

DoCommentDelete ==
    \E u \in Requesters, id \in CommentIds, m \in Methods : CommentDelete(u, id, m)

DoIndexList == \E page \in PageNumbers : IndexList(Anonymous, page)

DoCategoryPosts ==
    \E slug \in UrlSlugs, page \in PageNumbers : CategoryPosts(Anonymous, slug, page)

DoUserDetail ==
    \E username \in Names, page \in PageNumbers : UserDetail(Anonymous, username, page)

Next ==
    \/ DoPostCreate
    \/ DoPostUpdate
    \/ DoPostDelete
    \/ DoCommentCreate
    \/ DoCommentUpdate
    \/ DoCommentDelete

Spec == Init /\ [][Next]_vars

(***************************************************************************)
(* SpecVis: time passes while posts of every visibility are written and    *)
(* read.  is_published is no field of PostForm: a new post gets the value  *)
(* the model or the admin site gives it, and both values are admitted.     *)
(***************************************************************************)
VisAuthors == {1}

VisPostCreate ==
    \E u \in VisAuthors, m \in Methods, flag \in BOOLEAN :
      \E d \in PostData(m, {"a"}, Dates, Slugs, {Anonymous}) :
        /\ MayCreate(postSeq, MaxVisPosts, u, m, d)
        /\ PostCreate(u, m, d, flag)

VisPostUpdate ==
    \E u \in VisAuthors, id \in VisPostIds, m \in Methods :
      \E d \in PostData(m, {"a"}, Dates, Slugs, {Anonymous}) :
        PostUpdate(u, id, m, d)

VisPostDetail == \E u \in Requesters, id \in VisPostIds : PostDetail(u, id)

NextVis ==
    \/ Tick
    \/ VisPostCreate
    \/ VisPostUpdate
    \/ VisPostDetail
    \/ DoIndexList
    \/ DoCategoryPosts

SpecVis == Init /\ [][NextVis]_vars

(***************************************************************************)
(* SpecList: the three listings, page by page, over databases of up to     *)
(* MaxListPosts posts and MaxListComments comments.  ListPost(k, i) is     *)
(* post i of database k: 1 has one author and dates that alternate, 2      *)
(* mixes authors, dates, categories and flags, 3 has one date throughout.  *)
(* The server has just started (today = now) and every date is past.       *)
(***************************************************************************)
ListPost(k, i) ==
    IF k = 1
    THEN [author |-> 1, text |-> "a", pub_date |-> i % (MaxTime + 1),
          category |-> "travel", is_published |-> TRUE]
    ELSE IF k = 2
    THEN [author |-> (i % 2) + 1, text |-> "a", pub_date |-> (i \div 3) % (MaxTime + 1),
          category |-> IF i % 4 = 0 THEN "drafts" ELSE "travel",
          is_published |-> (i % 5 # 0)]
    ELSE [author |-> 2, text |-> "a", pub_date |-> 0,
          category |-> "travel", is_published |-> TRUE]

InitList ==
    /\ now = MaxTime
    /\ today = MaxTime
    /\ tie \in {1, 2}
    /\ users = InitUsers
    /\ \E n \in 0..MaxListPosts, k \in 1..3 :
          /\ posts = [i \in 1..n |-> ListPost(k, i)]
          /\ postSeq = n
          /\ \E m \in {0, MaxListComments} :
                /\ comments = [c \in 1..(IF n = 0 THEN 0 ELSE m) |->
                                  [author |-> (c % 2) + 1, post |-> ((c * k) % n) + 1,
                                   text |-> "a"]]
                /\ commentSeq = IF n = 0 THEN 0 ELSE m
    /\ resp = NoResp

ListIndexList == \E page \in ListPages : IndexList(Anonymous, page)

ListCategoryPosts ==
    \E slug \in UrlSlugs, page \in ListPages : CategoryPosts(Anonymous, slug, page)

ListUserDetail ==
    \E username \in Names, page \in ListPages : UserDetail(Anonymous, username, page)

NextList ==
    \/ ListIndexList
    \/ ListCategoryPosts
    \/ ListUserDetail

SpecList == InitList /\ [][NextList]_vars

(***************************************************************************)
(* SpecUser: profiles are edited.                                          *)
(***************************************************************************)
DoUserEdit ==
    \E u \in Requesters, username \in Names, m \in Methods :
      \E d \in UserData(m) :
        UserEdit(u, username, m, d)

NextUser ==
    \/ DoUserEdit
    \/ DoUserDetail

SpecUser == Init /\ [][NextUser]_vars

(***************************************************************************)
(* Properties                                                              *)
(***************************************************************************)
\* The visibility invariant of a post at the present moment.
Visible(p) ==
    /\ posts[p].is_published
    /\ Category[posts[p].category]
    /\ posts[p].pub_date <= now

ItemPks(items) == {items[i].pk : i \in 1..Len(items)}

\* C1: the detail page of a post that is not visible answers 404 to everyone
\* but its author, who gets the page; the detail page of a visible post
\* answers 200 to everyone.
C1_DetailVisibility ==
    (resp.view = "post_detail" /\ resp.pk \in DOMAIN posts) =>
        resp.status = (IF Visible(resp.pk) \/ resp.user = posts[resp.pk].author
                       THEN 200 ELSE 404)

C1_Witness ==
    /\ resp.view = "post_detail"
    /\ resp.pk \in DOMAIN posts
    /\ ~Visible(resp.pk)
    /\ resp.user = posts[resp.pk].author
    /\ resp.status = 200
    /\ \E p \in DOMAIN posts : posts[p].pub_date > now

\* What a request from a signed-in user who is not the author gets: a
\* redirect to the detail page of the post, with nothing written.
NonAuthorRedirected(r) ==
    /\ ( /\ r.view \in {"post_edit", "post_delete"}
         /\ r.pk \in DOMAIN posts
         /\ is_authenticated(r.user)
         /\ r.user # posts[r.pk].author )
       => /\ r.status = 302
          /\ r.loc = Url("blog:post_detail", r.pk, "")
          /\ UNCHANGED <<posts, comments>>
    /\ ( /\ r.view \in {"comment_edit", "comment_delete"}
         /\ r.pk \in DOMAIN comments
         /\ is_authenticated(r.user)
         /\ r.user # comments[r.pk].author )
       => /\ r.status = 302
          /\ r.loc = Url("blog:post_detail", comments[r.pk].post, "")
          /\ UNCHANGED <<posts, comments>>

\* What the same request gets from the author: the form or the confirmation
\* page on GET and on a form that does not validate, the write on POST.
AuthorSucceeds(r) ==
    /\ ( /\ r.view \in {"post_edit", "post_delete"}
         /\ r.pk \in DOMAIN posts
         /\ r.user = posts[r.pk].author )
       => IF r.method = "GET" \/ (r.view = "post_edit" /\ ~r.data.valid)
          THEN r.status = 200 /\ UNCHANGED <<posts, comments>>
          ELSE /\ r.status = 302
               /\ r.loc.name # "login"
               /\ IF r.view = "post_edit"
                  THEN /\ r.pk \in DOMAIN posts'
                       /\ posts'[r.pk].text = r.data.text
                  ELSE r.pk \notin DOMAIN posts'
    /\ ( /\ r.view \in {"comment_edit", "comment_delete"}
         /\ r.pk \in DOMAIN comments
         /\ r.user = comments[r.pk].author )
       => IF r.method = "GET" \/ (r.view = "comment_edit" /\ ~r.data.valid)
          THEN r.status = 200 /\ UNCHANGED <<posts, comments>>
          ELSE /\ r.status = 302
               /\ r.loc = Url("blog:post_detail", comments[r.pk].post, "")
               /\ IF r.view = "comment_edit"
                  THEN /\ r.pk \in DOMAIN comments'
                       /\ comments'[r.pk].text = r.data.text
                  ELSE r.pk \notin DOMAIN comments'

PostWrittenByAuthor(r) ==
    \A p \in DOMAIN posts :
        (p \notin DOMAIN posts' \/ posts'[p] # posts[p]) => r.user = posts[p].author

CommentChangedByAuthor(r) ==
    \A c \in DOMAIN comments :
        (c \in DOMAIN comments' /\ comments'[c] # comments[c])
            => r.user = comments[c].author

\* C2 as stated: a request to edit or delete from a signed-in user who is not
\* the author is redirected to the post's detail page and writes nothing, the
\* author's request succeeds, and a post or a comment is only ever changed or
\* removed by a request from its author.
C2_AsStated ==
    [][ /\ NonAuthorRedirected(resp')
        /\ AuthorSucceeds(resp')
        /\ PostWrittenByAuthor(resp')
        /\ CommentChangedByAuthor(resp')
        /\ \A c \in DOMAIN comments :
              c \notin DOMAIN comments' => resp'.user = comments[c].author ]_vars

\* C2, amended: as stated, except that a comment is also removed when the
\* author of its post deletes that post.
C2_OwnershipGate ==
    [][ /\ NonAuthorRedirected(resp')
        /\ AuthorSucceeds(resp')
        /\ PostWrittenByAuthor(resp')
        /\ CommentChangedByAuthor(resp')
        /\ \A c \in DOMAIN comments :
              c \notin DOMAIN comments' =>
                  \/ resp'.user = comments[c].author
                  \/ /\ resp'.view = "post_delete"
                     /\ resp'.pk = comments[c].post
                     /\ resp'.user = posts[resp'.pk].author ]_vars

C2_Witness ==
    /\ resp.view = "comment_delete"
    /\ resp.method = "POST"
    /\ resp.pk \in DOMAIN comments
    /\ is_authenticated(resp.user)
    /\ resp.user # comments[resp.pk].author
    /\ resp.user = posts[comments[resp.pk].post].author
    /\ resp.status = 302
    /\ resp.loc = Url("blog:post_detail", comments[resp.pk].post, "")

TargetExists(r) ==
    IF r.view = "post_create" THEN TRUE
    ELSE IF r.view \in {"post_edit", "post_delete", "comment_create"}
    THEN r.pk \in DOMAIN posts
    ELSE r.pk \in DOMAIN comments

\* C3: a request from a client that is not signed in to one of the six views
\* that create, edit or delete, for a target that exists, is redirected to
\* the login page and writes nothing.
C3_AnonymousToLogin ==
    [][ ( /\ resp'.view \in {"post_create", "post_edit", "post_delete",
                              "comment_create", "comment_edit", "comment_delete"}
          /\ ~is_authenticated(resp'.user)
          /\ TargetExists(resp') )
        => /\ resp'.status = 302
           /\ resp'.loc = LoginUrl
           /\ UNCHANGED DB ]_vars

\* C4: no page of the index or of a category listing that is served holds a
\* post that is not visible at the moment of the request.
C4_ListingsVisible ==
    (resp.view \in {"index", "category"} /\ resp.status = 200) =>
        \A p \in ItemPks(resp.items) : p \in DOMAIN posts /\ Visible(p)

C4_Witness ==
    /\ resp.view = "category"
    /\ resp.status = 200
    /\ resp.items # <<>>
    /\ \E p \in DOMAIN posts : posts[p].category = resp.slug /\ ~Visible(p)

\* C5: a comment made by the comment-create view has the requesting user as
\* author and the post of the URL as post, whatever the client submits; for
\* a post that does not exist the answer is 404 and no comment is made.
C5_CommentStamped ==
    [][ /\ \A c \in DOMAIN comments' \ DOMAIN comments :
              /\ resp'.view = "comment_create"
              /\ is_authenticated(resp'.user)
              /\ resp'.pk \in DOMAIN posts
              /\ comments'[c].author = resp'.user
              /\ comments'[c].post = resp'.pk
        /\ (resp'.view = "comment_create" /\ resp'.pk \notin DOMAIN posts)
              => resp'.status = 404 /\ comments' = comments
        /\ ( /\ resp'.view = "comment_create"
             /\ resp'.status = 302
             /\ resp'.loc # LoginUrl )
              => DOMAIN comments' # DOMAIN comments ]_vars

C5_Witness ==
    /\ resp.view = "comment_create"
    /\ resp.status = 302
    /\ resp.data.valid
    /\ resp.data.author \notin {Anonymous, resp.user}
    /\ resp.data.post \notin {0, resp.pk}
    /\ \E c \in DOMAIN comments :
          comments[c].author = resp.user /\ comments[c].post = resp.pk

RECURSIVE Pages(_, _)
\* pages 1..n of a listing, one after the other
Pages(q, n) == IF n = 0 THEN <<>> ELSE Pages(q, n - 1) \o PageOf(q, n)

Paginated(q, filtered) ==
    /\ \A n \in 1..NumPages(q) : Len(PageOf(q, n)) <= POSTS_PER_PAGE
    /\ Pages(q, NumPages(q)) = q
    /\ ItemPks(q) = filtered
    /\ Len(q) = Cardinality(filtered)

\* C6: in each of the three listings a page holds at most 10 items, and the
\* pages 1..last together are the filtered posts of the listing, each once.
C6_Pagination ==
    /\ Paginated(IndexQueryset, IndexFilter)
    /\ \A s \in Slugs : Paginated(CategoryQueryset(s), CategoryFilter(s))
    /\ \A u \in UserIds : Paginated(ProfileQueryset(u), ProfileFilter(u))
    /\ (resp.view \in {"index", "category", "profile"} /\ resp.status = 200)
          => Len(resp.items) <= POSTS_PER_PAGE
    /\ (resp.view = "index" /\ resp.status = 200)
          => resp.items = PageOf(IndexQueryset, resp.page)

C6_Witness ==
    /\ resp.view = "index"
    /\ resp.status = 200
    /\ resp.page = NumPages(IndexQueryset)
    /\ resp.page >= 3
    /\ Len(resp.items) >= 1
    /\ Len(resp.items) < POSTS_PER_PAGE

\* C7: at any moment the index lists exactly the posts visible at that
\* moment, newest first.
C7_IndexIsVisiblePosts ==
    (resp.view = "index" /\ resp.status = 200 /\ resp.page = 1) =>
        /\ ItemPks(resp.items) = {p \in DOMAIN posts : Visible(p)}
        /\ \A i, j \in 1..Len(resp.items) :
              i < j => posts[resp.items[i].pk].pub_date >= posts[resp.items[j].pk].pub_date

\* C8: in each of the three listings every listed post carries a
\* comment_count equal to the number of its comments.
C8_CommentCount ==
    (resp.view \in {"index", "category", "profile"} /\ resp.status = 200) =>
        \A i \in 1..Len(resp.items) :
            resp.items[i].comment_count = CommentCount(resp.items[i].pk)

\* C9: a profile edit changes the record of the requesting user alone.
C9_OwnProfileOnly ==
    [][ \A b \in UserIds : users'[b] # users[b] => resp'.user = b ]_vars

\* C10: a post made by the post-create view has the requesting user as
\* author, and no request changes the author of a post, or the author or the
\* post of a comment, that exists before and after it.
C10_AuthorshipFixed ==
    [][ /\ \A p \in DOMAIN posts' \ DOMAIN posts :
              /\ p = postSeq + 1
              /\ resp'.view = "post_create"
              /\ is_authenticated(resp'.user)
              /\ posts'[p].author = resp'.user
        /\ \A p \in DOMAIN posts \cap DOMAIN posts' :
              posts'[p].author = posts[p].author
        /\ \A c \in DOMAIN comments' \ DOMAIN comments : c = commentSeq + 1
        /\ \A c \in DOMAIN comments \cap DOMAIN comments' :
              /\ comments'[c].author = comments[c].author
              /\ comments'[c].post = comments[c].post ]_vars

C10_Witness ==
    /\ resp.view = "post_edit"
    /\ resp.status = 302
    /\ resp.data.valid
    /\ resp.data.author \notin {Anonymous, resp.user}
    /\ resp.pk \in DOMAIN posts
    /\ posts[resp.pk].author = resp.user
    /\ \E c \in DOMAIN comments : comments[c].post = resp.pk

====
